---- MODULE Spec2Model ----
(***************************************************************************)
(* Model of phy/plot/features.py: the dimensions resolver, the feature     *)
(* visuals (primary and background), the FeatureView canvas that owns      *)
(* them, the pan/zoom constraint computation and the spike baking.         *)
(*                                                                         *)
(* Encodings.  A dimension is <<"time">> (the string 'time') or the tuple  *)
(* <<channel, feature>>.  A matrix is a sequence of rows, a row a sequence *)
(* of cells <<dim_x, dim_y>>; indices are 1-based here, 0-based in the     *)
(* source.  A Python value that may be None is None == <<>> or Some(v).    *)
(* A float that may be NaN is NaN == <<>> or Num(n).  Marker sizes are     *)
(* counted in twentieths (0.1 = 2, 0.25 = 5, 3.0 = 60, 100 = 2000).        *)
(***************************************************************************)
EXTENDS Integers, Sequences, FiniteSets, TLC

VARIABLES visual, background, grid, pz, program, call, result, pc, arg, ret

vars == <<visual, background, grid, pz, program, call, result, pc, arg, ret>>

(***************************************************************************)
(* Bounds of the model.                                                    *)
(***************************************************************************)
MaxSpikes == 2
MaxChannels == 2
MaxFeatures == 2
MaxDims == 2
MaxCalls == 2

None == <<>>
Some(v) == <<v>>
IsNone(o) == o = <<>>
Val(o) == o[1]

NaN == <<>>
Num(n) == <<n>>

Time == <<"time">>
ChannelFeature(channel, fet) == <<channel, fet>>
IsTime(dim) == Len(dim) = 1

(* The valid dimensions of a tensor with n_channels channels and           *)
(* n_features features.                                                    *)
ValidDims(n_channels, n_features) ==
    {Time} \cup {ChannelFeature(c, f) : c \in 0..(n_channels - 1), f \in 0..(n_features - 1)}

(* Every sequence over S of length lo..hi.                                 *)
SeqsOf(S, lo, hi) == UNION {[1..n -> S] : n \in lo..hi}

(***************************************************************************)
(* _alternative_dimension and _matrix_from_dimensions                      *)
(***************************************************************************)
AltSameFeature(dim, n_features, n_channels) ==
    IF dim = Time THEN ChannelFeature(0, 0)
    ELSE LET channel == dim[1]
             fet == dim[2]
         IN  IF n_features >= 2 THEN ChannelFeature(channel, (fet + n_features) % n_features)
             ELSE IF n_channels >= 2 THEN ChannelFeature((channel + 1) % n_channels, fet)
             ELSE Time

_alternative_dimension(dim, n_features, n_channels) ==
    IF dim = Time THEN ChannelFeature(0, 0)
    ELSE LET channel == dim[1]
             fet == dim[2]
         IN  IF n_features >= 2 THEN ChannelFeature(channel, (fet + 1) % n_features)
             ELSE IF n_channels >= 2 THEN ChannelFeature((channel + 1) % n_channels, fet)
             ELSE Time

(* One cell of the matrix: lines 53-63.                                    *)
MatrixCell(dimensions, i, j, n_features, n_channels) ==
    LET dim_x == dimensions[i]
        dim_y == dimensions[j]
    IN  IF dim_x = dim_y
        THEN LET alt == _alternative_dimension(dim_x, n_features, n_channels)
             IN  IF alt = Time THEN <<alt, dim_x>> ELSE <<dim_x, alt>>
        ELSE <<dim_x, dim_y>>

_matrix_from_dimensions(dimensions, n_features, n_channels) ==
    LET n == Len(dimensions)
    IN  [i \in 1..n |-> [j \in 1..n |-> MatrixCell(dimensions, i, j, n_features, n_channels)]]

(***************************************************************************)
(* BaseFeatureVisual: the fields of a visual and its setters               *)
(***************************************************************************)
(* BaseFeatureVisual.__init__ (lines 73-80); masks, spike_clusters and     *)
(* n_spikes belong to the base spike visual and are unset at construction. *)
NewVisual ==
    [features |-> None, spike_samples |-> None, dimensions_matrix |-> <<>>,
     n_spikes |-> None, n_channels |-> None, n_features |-> None, n_rows |-> None,
     masks |-> None, spike_clusters |-> None]

(* A tensor is given by its shape <<n_spikes, n_channels, n_features>>.    *)
_set_features_to_bake(v, value) ==
    [v EXCEPT !.n_spikes = Some(value[1]), !.n_channels = Some(value[2]),
              !.n_features = Some(value[3]), !.features = Some(value)]

(* spike_samples setter: the new visual, or None when the assertion fails. *)
SetSpikeSamples(v, value) ==
    IF Some(Len(value)) = v.n_spikes
    THEN Some([v EXCEPT !.spike_samples = Some(value)])
    ELSE None

(* TRUE when every assertion of _check_dimension passes.  With n_channels  *)
(* still None the range comparison cannot succeed.                         *)
_check_dimension(v, dim) ==
    IF IsTime(dim) THEN TRUE
    ELSE /\ ~IsNone(v.n_channels)
         /\ ~IsNone(v.n_features)
         /\ 0 <= dim[1] /\ dim[1] < Val(v.n_channels)
         /\ 0 <= dim[2] /\ dim[2] < Val(v.n_features)

(* value.shape[0] == value.shape[1]                                        *)
IsSquare(value) == \A i \in 1..Len(value) : Len(value[i]) = Len(value)

AllCellsValid(v, value) ==
    \A i \in 1..Len(value) : \A j \in 1..Len(value[i]) :
        _check_dimension(v, value[i][j][1]) /\ _check_dimension(v, value[i][j][2])

SetDimensionsEager(v, value) ==
    IF ~IsSquare(value) THEN [obj |-> v, ok |-> FALSE]
    ELSE [obj |-> [v EXCEPT !.n_rows = Some(Len(value)), !.dimensions_matrix = value],
          ok |-> AllCellsValid(v, value)]

(* The visual after the call and whether the call returned normally.       *)
(* n_rows is assigned before the cells are checked, the matrix after.      *)
_set_dimensions_to_bake(v, value) ==
    IF ~IsSquare(value) THEN [obj |-> v, ok |-> FALSE]
    ELSE LET v1 == [v EXCEPT !.n_rows = Some(Len(value))]
         IN  IF AllCellsValid(v1, value)
             THEN [obj |-> [v1 EXCEPT !.dimensions_matrix = value], ok |-> TRUE]
             ELSE [obj |-> v1, ok |-> FALSE]

(***************************************************************************)
(* FeatureView._set_pan_constraints                                        *)
(***************************************************************************)
AxisLockLastWins(dim_x, dim_y) ==
    IF dim_y = Time THEN "y"
    ELSE IF dim_x = Time THEN "x" ELSE "b"

(* global_pan_zoom_axis of one cell: 'b' by default, 'x' when dim_x is     *)
(* time, then 'y' or 'n' when dim_y is time (lines 368, 375-382).          *)
AxisLock(dim_x, dim_y) ==
    LET g0 == "b"
        g1 == IF dim_x = Time THEN "x" ELSE g0
    IN  IF dim_y = Time THEN (IF g1 # "x" THEN "y" ELSE "n") ELSE g1

(* A bound of one cell: `locked` when the dimension is time, else NaN.     *)
Bound(dim, locked) == IF dim = Time THEN Num(locked) ELSE NaN

(* The cells (0-based) whose dim_y is not time.                            *)
NonTimeCells(matrix) ==
    {c \in (0..(Len(matrix) - 1)) \X (0..(Len(matrix) - 1)) :
        matrix[c[1] + 1][c[2] + 1][2] # Time}

(* The first cell of a non-empty set in the order of the two loops.        *)
FirstRowMajor(cells, n) ==
    CHOOSE c \in cells : \A d \in cells : n * c[1] + c[2] <= n * d[1] + d[2]

(* What line 386 stores for the first cell (i, j) whose dim_y is not time. *)
DefaultIndex(i, j) == <<i, i>>

(* The pan/zoom state after _set_pan_constraints(matrix).                  *)
_set_pan_constraints(p, matrix) ==
    LET n == Len(matrix)
        cells == NonTimeCells(matrix)
        first == FirstRowMajor(cells, n)
    IN  [_index |-> IF cells = {} THEN p._index
                    ELSE Some(DefaultIndex(first[1], first[2])),
         _xmin |-> [i \in 1..n |-> [j \in 1..n |-> Bound(matrix[i][j][1], -1)]],
         _xmax |-> [i \in 1..n |-> [j \in 1..n |-> Bound(matrix[i][j][1], 1)]],
         _ymin |-> [i \in 1..n |-> [j \in 1..n |-> Bound(matrix[i][j][2], -1)]],
         _ymax |-> [i \in 1..n |-> [j \in 1..n |-> Bound(matrix[i][j][2], 1)]],
         global_pan_zoom_axis |->
             [i \in 1..n |-> [j \in 1..n |-> AxisLock(matrix[i][j][1], matrix[i][j][2])]]]

(***************************************************************************)
(* FeatureView: the canvas state is the record                             *)
(*   [visual, background, grid, pz, ok]                                    *)
(* where ok turns FALSE at the statement that raises; what was assigned    *)
(* before that statement stays assigned.                                   *)
(***************************************************************************)
(* FeatureView.dimensions_matrix (getter)                                  *)
DimensionsMatrix(s) ==
    IF Len(s.background.dimensions_matrix) # 0
    THEN s.background.dimensions_matrix
    ELSE s.visual.dimensions_matrix

update_dimensions_matrix(s, matrix) ==
    LET n_rows == Len(matrix)
        b == IF ~IsNone(s.background.features)
             THEN _set_dimensions_to_bake(s.background, matrix)
             ELSE [obj |-> s.background, ok |-> TRUE]
        s1 == [s EXCEPT !.background = b.obj]
    IN  IF ~b.ok THEN [s1 EXCEPT !.ok = FALSE]
        ELSE [s1 EXCEPT !.grid = [boxes |-> Some(n_rows), lasso |-> Some(n_rows),
                                  axes |-> Some(n_rows), pz |-> Some(n_rows)],
                        !.pz = _set_pan_constraints(s.pz, matrix)]

(* FeatureView.dimensions_matrix (setter)                                  *)
SetViewDimensionsMatrix(s, value) ==
    LET v == _set_dimensions_to_bake(s.visual, value)
        s1 == [s EXCEPT !.visual = v.obj]
    IN  IF ~v.ok THEN [s1 EXCEPT !.ok = FALSE]
        ELSE update_dimensions_matrix(s1, value)

(***************************************************************************)
(* FeatureView.set_data, statement by statement                            *)
(***************************************************************************)
Fail(s) == [s EXCEPT !.ok = FALSE]

Ones(n_spikes, n_channels) == [k \in 1..n_spikes |-> [c \in 1..n_channels |-> 1]]
Zeros(n_spikes) == [k \in 1..n_spikes |-> 0]

(* line 426 *)
SetDataFeatures(s, features) ==
    [s EXCEPT !.visual = _set_features_to_bake(@, features)]

(* lines 428-433 *)
SetDataBackground(s, features, background_features, spike_samples) ==
    IF IsNone(background_features) THEN s
    ELSE LET bg == Val(background_features)
         IN  IF <<features[2], features[3]>> # <<bg[2], bg[3]>> THEN Fail(s)
             ELSE LET s1 == [s EXCEPT !.background = _set_features_to_bake(@, bg)]
                  IN  IF IsNone(spike_samples) THEN s1
                      ELSE IF Len(Val(spike_samples)) # features[1] THEN Fail(s1)
                      ELSE LET b == SetSpikeSamples(s1.background, Val(spike_samples))
                           IN  IF IsNone(b) THEN Fail(s1)
                               ELSE [s1 EXCEPT !.background = Val(b)]

(* lines 417-418, 435-436: the default is all ones; the masks setter of    *)
(* the base spike visual stores what it is given.                          *)
SetDataMasks(s, features, masks) ==
    [s EXCEPT !.visual.masks =
        IF IsNone(masks) THEN Some(Ones(features[1], features[2])) ELSE masks]

(* lines 420-421, 438-443 *)
SetDataDimensions(s, features, dimensions) ==
    IF Len(DimensionsMatrix(s)) # 0 THEN s
    ELSE LET requested == IF IsNone(dimensions) THEN <<ChannelFeature(0, 0)>>
                          ELSE Val(dimensions)
         IN  SetViewDimensionsMatrix(
                 s, _matrix_from_dimensions(requested, features[3], features[2]))

(* lines 412-413, 445-446: spike_clusters is left to its default, zeros *)
SetDataClusters(s, features) ==
    [s EXCEPT !.visual.spike_clusters = Some(Zeros(features[1]))]

(* lines 447-448 *)
SetDataSpikeSamples(s, spike_samples) ==
    IF IsNone(spike_samples) THEN s
    ELSE LET v == SetSpikeSamples(s.visual, Val(spike_samples))
         IN  IF IsNone(v) THEN Fail(s) ELSE [s EXCEPT !.visual = Val(v)]

(* lines 403-410: features=None falls back on the visual's tensor, and     *)
(* reading the shape of None raises.  A statement that raised leaves the   *)
(* state as it is: the statements after it do not run.                     *)
set_data(s, features_arg, dimensions, masks, spike_samples, background_features) ==
    LET given == IF IsNone(features_arg) THEN s.visual.features ELSE features_arg
    IN  IF IsNone(given) THEN Fail(s)
        ELSE LET features == Val(given)
                 s1 == SetDataFeatures(s, features)
                 s2 == IF ~s1.ok THEN s1
                       ELSE SetDataBackground(s1, features, background_features,
                                              spike_samples)
                 s3 == IF ~s2.ok THEN s2 ELSE SetDataMasks(s2, features, masks)
                 s4 == IF ~s3.ok THEN s3 ELSE SetDataDimensions(s3, features, dimensions)
                 s5 == IF ~s4.ok THEN s4 ELSE SetDataClusters(s4, features)
             IN  IF ~s5.ok THEN s5 ELSE SetDataSpikeSamples(s5, spike_samples)

(***************************************************************************)
(* The state machine of the canvas                                         *)
(***************************************************************************)
Canvas == [visual |-> visual, background |-> background, grid |-> grid, pz |-> pz,
           ok |-> TRUE]

NewPanZoom ==
    [_index |-> None, _xmin |-> <<>>, _xmax |-> <<>>, _ymin |-> <<>>, _ymax |-> <<>>,
     global_pan_zoom_axis |-> <<>>]

NewProgram ==
    [u_size |-> Num(60), a_position |-> None, a_mask |-> None, a_box |-> None,
     n_rows |-> None]

NewGrid == [boxes |-> None, lasso |-> None, axes |-> None, pz |-> None]

NewCanvas ==
    [visual |-> NewVisual, background |-> NewVisual, grid |-> NewGrid, pz |-> NewPanZoom,
     ok |-> TRUE]

(* The view after FeatureView() (lines 73-80, 255-257, 345-359).           *)
Constructed ==
    /\ visual = NewVisual
    /\ background = NewVisual
    /\ grid = NewGrid
    /\ pz = NewPanZoom
    /\ program = NewProgram
    /\ call = [op |-> "init", n |-> 0, square |-> TRUE, out_of_range |-> FALSE]
    /\ result = [status |-> "ok", clean |-> TRUE]

Init ==
    /\ Constructed
    /\ pc = "idle"
    /\ arg = None
    /\ ret = None

(* The state a call leaves behind, and how it ended.                       *)
Returned(s) ==
    /\ visual' = s.visual
    /\ background' = s.background
    /\ grid' = s.grid
    /\ pz' = s.pz
    /\ result' = [status |-> IF s.ok THEN "ok" ELSE "error",
                  clean |-> result.clean /\ s.ok]

(* The inputs of the calls.                                                *)
Shapes == (1..MaxSpikes) \X (1..MaxChannels) \X (1..MaxFeatures)
AllDims ==
    ValidDims(MaxChannels, MaxFeatures)
    \cup {ChannelFeature(MaxChannels, 0), ChannelFeature(0, MaxFeatures)}
Requests == SeqsOf(AllDims, 0, MaxDims)
SpikeSamples == {[k \in 1..n |-> k - 1] : n \in 1..MaxSpikes}
OptionOf(S) == {None} \cup {Some(x) : x \in S}

MatrixInputs ==
    {_matrix_from_dimensions(d, MaxFeatures, MaxChannels) : d \in Requests}
    \cup {<<<< <<d, Time>>, <<Time, d>> >>>> : d \in AllDims}

(* What the call record remembers of a matrix handed to the setter: that   *)
(* some cell names a channel outside [0, n_channels) or a feature outside  *)
(* [0, n_features); before any tensor is set no channel is inside.         *)
OutOfRange(dim, n_channels, n_features) ==
    /\ dim # Time
    /\ \/ IsNone(n_channels) \/ IsNone(n_features)
       \/ dim[1] \notin 0..(Val(n_channels) - 1)
       \/ dim[2] \notin 0..(Val(n_features) - 1)

HasOutOfRange(value, n_channels, n_features) ==
    \E i \in 1..Len(value) : \E j \in 1..Len(value[i]) : \E k \in 1..2 :
        OutOfRange(value[i][j][k], n_channels, n_features)

(* set_data(features, dimensions, spike_samples=..., background_features=...) *)
(* with masks, spike_clusters and colors left to their defaults.           *)
(* dimensions is read only when no matrix is stored yet (line 438), so it  *)
(* is enumerated only then.                                                *)
SetData ==
    /\ call.n < MaxCalls
    /\ \E features \in OptionOf(Shapes), background_features \in OptionOf(Shapes),
          spike_samples \in OptionOf(SpikeSamples),
          dimensions \in IF Len(DimensionsMatrix(Canvas)) = 0
                         THEN OptionOf(Requests) ELSE {None} :
           \E s \in {set_data(Canvas, features, dimensions, None, spike_samples,
                             background_features)} :
               /\ Returned(s)
               /\ call' = [op |-> "set_data", n |-> call.n + 1, square |-> TRUE,
                          out_of_range |-> FALSE]
               /\ UNCHANGED <<program, pc, arg, ret>>

(* view.dimensions_matrix = value *)
SetDimensionsMatrix ==
    /\ call.n < MaxCalls
    /\ \E value \in MatrixInputs :
           \E s \in {SetViewDimensionsMatrix(Canvas, value)} :
               /\ Returned(s)
               /\ call' = [op |-> "dimensions_matrix", n |-> call.n + 1,
                          square |-> IsSquare(value),
                          out_of_range |-> HasOutOfRange(value, visual.n_channels,
                                                         visual.n_features)]
               /\ UNCHANGED <<program, pc, arg, ret>>

Next == SetData \/ SetDimensionsMatrix

Spec == Init /\ [][Next]_vars

(***************************************************************************)
(* Properties of the canvas                                                *)
(***************************************************************************)
(* C2: a set_data call or a dimensions-matrix assignment that fails leaves *)
(* every field of the primary and of the background visual (tensor,        *)
(* n_spikes, n_channels, n_features, masks, n_rows, dimensions matrix,     *)
(* cluster assignment, spike samples) as it was before the call.           *)
FailedCallKeepsLastGoodState ==
    [][(call'.n # call.n /\ result'.status = "error")
           => (visual' = visual /\ background' = background)]_vars

(* C3: assigning a square matrix that holds a dimension whose channel is   *)
(* outside [0, n_channels) or whose feature is outside [0, n_features)     *)
(* fails, and the matrices stored in the primary and in the background     *)
(* visual (hence the one the view returns) are the ones stored before.     *)
OutOfRangeMatrixRejected ==
    [][(call'.n # call.n /\ call'.op = "dimensions_matrix"
            /\ call'.square /\ call'.out_of_range)
           => /\ result'.status = "error"
              /\ visual'.dimensions_matrix = visual.dimensions_matrix
              /\ background'.dimensions_matrix = background.dimensions_matrix
              /\ DimensionsMatrix(Canvas)' = DimensionsMatrix(Canvas)]_vars

(* C3 witness: an out-of-range square matrix was just refused by a view    *)
(* that holds a tensor and a non-empty matrix.                             *)
OutOfRangeMatrixRefusedOverStoredOne ==
    /\ call.op = "dimensions_matrix" /\ call.square /\ call.out_of_range
    /\ result.status = "error"
    /\ ~IsNone(visual.features)
    /\ Len(visual.dimensions_matrix) > 0

(* Every dimension of the matrix is time, or a pair inside the tensor the  *)
(* visual v currently holds.                                               *)
MatrixFitsTensor(v) ==
    ~HasOutOfRange(v.dimensions_matrix, v.n_channels, v.n_features)

(* C4: after successful set_data calls and successful matrix assignments   *)
(* only, every dimension of the stored matrix is Time or a (channel,       *)
(* feature) pair inside the most recently set feature tensor.              *)
StoredDimensionsFitCurrentTensor ==
    result.clean => MatrixFitsTensor(visual)

(* C10: after successful calls only, a background visual that holds        *)
(* features has the dimensions matrix and the n_rows of the primary        *)
(* visual.                                                                 *)
BackgroundFollowsPrimary ==
    (result.clean /\ ~IsNone(background.features))
        => /\ background.dimensions_matrix = visual.dimensions_matrix
           /\ background.n_rows = visual.n_rows

(***************************************************************************)
(* _matrix_from_dimensions called once on each request                     *)
(***************************************************************************)
ResolveInputs ==
    {[dimensions |-> d, n_features |-> nf, n_channels |-> nc] :
        nf \in 1..MaxFeatures, nc \in 1..MaxChannels, d \in Requests}

ValidResolveInputs ==
    {a \in ResolveInputs :
        \A k \in 1..Len(a.dimensions) :
            a.dimensions[k] \in ValidDims(a.n_channels, a.n_features)}

InitResolve ==
    /\ Constructed
    /\ pc = "call"
    /\ arg \in {Some(a) : a \in ValidResolveInputs}
    /\ ret = None

Resolve ==
    /\ pc = "call"
    /\ ret' = Some(_matrix_from_dimensions(Val(arg).dimensions, Val(arg).n_features,
                                           Val(arg).n_channels))
    /\ pc' = "done"
    /\ UNCHANGED <<visual, background, grid, pz, program, call, result, arg>>

NextResolve == Resolve

SpecResolve == InitResolve /\ [][NextResolve]_vars

(* C1: in the matrix returned for valid requested dimensions, every cell   *)
(* (i, j) with requested[i] = requested[j], the diagonal included, has     *)
(* dim_x # dim_y.                                                          *)
SelfPairingResolved ==
    pc = "done" =>
        LET d == Val(arg).dimensions
            m == Val(ret)
        IN  /\ Len(m) = Len(d)
            /\ \A i \in 1..Len(d) : \A j \in 1..Len(d) :
                   d[i] = d[j] => m[i][j][1] # m[i][j][2]

(* C1 witness: a resolved request that repeats a (channel, feature)        *)
(* dimension of a tensor with several features, so that an off-diagonal    *)
(* cell is self-paired too.                                                *)
RepeatedDimensionResolved ==
    /\ pc = "done"
    /\ Len(Val(arg).dimensions) = 2
    /\ Val(arg).dimensions[1] = Val(arg).dimensions[2]
    /\ Val(arg).dimensions[1] # Time
    /\ Val(arg).n_features >= 2
    /\ Val(ret)[1][2][1] = Val(arg).dimensions[1]

(***************************************************************************)
(* _set_pan_constraints called once, on a freshly built view, with each    *)
(* square matrix over time and one (channel, feature) dimension            *)
(***************************************************************************)
PanCells == {Time, ChannelFeature(0, 0)} \X {Time, ChannelFeature(0, 0)}

PanMatrices == UNION {[1..n -> [1..n -> PanCells]] : n \in 0..MaxDims}

InitPan ==
    /\ Constructed
    /\ pc = "call"
    /\ arg \in {Some(m) : m \in PanMatrices}
    /\ ret = None

SetPanConstraints ==
    /\ pc = "call"
    /\ pz' = _set_pan_constraints(pz, Val(arg))
    /\ pc' = "done"
    /\ UNCHANGED <<visual, background, grid, program, call, result, arg, ret>>

NextPan == SetPanConstraints

SpecPan == InitPan /\ [][NextPan]_vars

(* C5: after _set_pan_constraints(matrix), the default active index is the *)
(* (row, col) of the first cell in row-major order whose dim_y is not      *)
(* Time, and it is left as it was when every dim_y is Time.                *)
DefaultIndexIsFirstNonTimeCell ==
    pc = "done" =>
        LET matrix == Val(arg)
            cells == NonTimeCells(matrix)
        IN  IF cells = {} THEN pz._index = NewPanZoom._index
            ELSE pz._index = Some(FirstRowMajor(cells, Len(matrix)))

(* C6: for every cell, xmin = -1 and xmax = +1 exactly when dim_x is Time  *)
(* and both are NaN otherwise; ymin = -1 and ymax = +1 exactly when dim_y  *)
(* is Time and both are NaN otherwise; the axis lock is 'x' when only      *)
(* dim_x is Time, 'y' when only dim_y is, 'n' when both are, 'b' when      *)
(* neither is.                                                             *)
TimeAxesLocked ==
    pc = "done" =>
        LET matrix == Val(arg)
            n == Len(matrix)
        IN  /\ Len(pz._xmin) = n /\ Len(pz.global_pan_zoom_axis) = n
            /\ \A i \in 1..n : \A j \in 1..n :
                   LET tx == matrix[i][j][1] = Time
                       ty == matrix[i][j][2] = Time
                   IN  /\ pz._xmin[i][j] = (IF tx THEN Num(-1) ELSE NaN)
                       /\ pz._xmax[i][j] = (IF tx THEN Num(1) ELSE NaN)
                       /\ pz._ymin[i][j] = (IF ty THEN Num(-1) ELSE NaN)
                       /\ pz._ymax[i][j] = (IF ty THEN Num(1) ELSE NaN)
                       /\ pz.global_pan_zoom_axis[i][j] =
                              (IF tx /\ ty THEN "n"
                               ELSE IF tx THEN "x"
                               ELSE IF ty THEN "y" ELSE "b")

(* C6 witness: constraints computed for a matrix that has a cell with      *)
(* time on both axes, one with time on x only, one with time on y only     *)
(* and one without time.                                                   *)
AllFourLocksComputed ==
    /\ pc = "done"
    /\ Len(Val(arg)) = 2
    /\ {pz.global_pan_zoom_axis[i][j] : i \in 1..2, j \in 1..2} = {"n", "x", "y", "b"}
    /\ Val(arg)[1][1] = <<Time, ChannelFeature(0, 0)>>
    /\ pz._xmin[1][1] = Num(-1) /\ pz._ymin[1][1] = NaN

(***************************************************************************)
(* Projection and baking (FeatureVisual)                                   *)
(***************************************************************************)
(* The largest entry of a non-empty array.                                 *)
Max(t) == CHOOSE m \in {t[k] : k \in 1..Len(t)} : \A k \in 1..Len(t) : t[k] <= m

(* Element [k, channel, feature] of the tensor, kept symbolic.             *)
Feature(k, channel, feature) == <<"features", k, channel, feature>>

(* (-1 + 2 t / m) * .8 as the fraction <<"time", numerator, denominator>>. *)
NormalizedTime(t, m) == IF m > 0 THEN <<"time", 4 * (2 * t - m), 5 * m>> ELSE <<"time", t, 1>>

(* One coordinate per spike, or None when the lookup raises: an index      *)
(* outside the tensor, or the maximum of an empty array of times.          *)
_get_feature_dim(v, dim) ==
    LET shape == Val(v.features)
    IN  IF dim # Time
        THEN IF dim[1] < shape[2] /\ dim[2] < shape[3]
             THEN Some([k \in 1..shape[1] |-> Feature(k - 1, dim[1], dim[2])])
             ELSE None
        ELSE LET t == IF IsNone(v.spike_samples)
                      THEN [k \in 1..Val(v.n_spikes) |-> k - 1]
                      ELSE Val(v.spike_samples)
             IN  IF Len(t) = 0 THEN None
                 ELSE Some([k \in 1..Len(t) |-> NormalizedTime(t[k], Max(t))])

(* np.c_[fet_x, fet_y] for box (i, j), 1-based here.                       *)
project(v, i, j) ==
    LET cell == v.dimensions_matrix[i][j]
        fet_x == _get_feature_dim(v, cell[1])
        fet_y == _get_feature_dim(v, cell[2])
    IN  IF IsNone(fet_x) \/ IsNone(fet_y) THEN None
        ELSE Some([k \in 1..Val(v.n_spikes) |-> <<Val(fet_x)[k], Val(fet_y)[k]>>])

_get_mask_dim(v, dim) ==
    IF dim # Time
    THEN IF dim[1] < Val(v.n_channels)
         THEN Some([k \in 1..Val(v.n_spikes) |-> Val(v.masks)[k][dim[1] + 1]])
         ELSE None
    ELSE Some([k \in 1..Val(v.n_spikes) |-> 1])

MaskDimX(cell) == cell[1]

(* line 296: the mask depends on the `y` coordinate.                       *)
MaskDim(cell) == cell[2]

(* Mask weights are float32 values, which astype(np.float32) keeps.        *)
AsFloat32(mask) == mask

RECURSIVE StackFrom(_, _)
(* The arrays blocks[b], blocks[b + 1], ... laid end to end.               *)
StackFrom(blocks, b) ==
    IF b > Len(blocks) THEN <<>> ELSE blocks[b] \o StackFrom(blocks, b + 1)

(* np.vstack / np.hstack of a list of per-box arrays.                      *)
Stack(blocks) == StackFrom(blocks, 1)

(* The buffers FeatureVisual._bake_spikes uploads, or None when it raises. *)
(* Box b (0-based, row-major) is the cell (b div n_rows, b mod n_rows).    *)
_bake_spikes(v) ==
    IF IsNone(v.n_rows) \/ IsNone(v.features) \/ IsNone(v.masks) THEN None
    ELSE LET n_rows == Val(v.n_rows)
             n_spikes == Val(v.n_spikes)
             n_boxes == n_rows * n_rows
             row(b) == ((b - 1) \div n_rows) + 1
             col(b) == ((b - 1) % n_rows) + 1
             pos == [b \in 1..n_boxes |-> project(v, row(b), col(b))]
             mask == [b \in 1..n_boxes |->
                         _get_mask_dim(v, MaskDim(v.dimensions_matrix[row(b)][col(b)]))]
             box == [b \in 1..n_boxes |->
                        [k \in 1..n_spikes |-> n_rows * (row(b) - 1) + (col(b) - 1)]]
         IN  IF n_boxes = 0 THEN None
             ELSE IF \E b \in 1..n_boxes : IsNone(pos[b]) \/ IsNone(mask[b]) THEN None
             ELSE Some([a_position |-> Stack([b \in 1..n_boxes |-> Val(pos[b])]),
                        a_mask |-> Stack([b \in 1..n_boxes |-> AsFloat32(Val(mask[b]))]),
                        a_box |-> Stack(box),
                        n_rows |-> n_rows])

(***************************************************************************)
(* _bake_spikes called once on a view that one set_data call has filled    *)
(***************************************************************************)
BakeShapes == (0..MaxSpikes) \X (1..MaxChannels) \X (1..MaxFeatures)

(* Masks whose entries all differ, and differ from 1.                      *)
GradedMasks(n_spikes, n_channels) ==
    [k \in 1..n_spikes |-> [c \in 1..n_channels |-> n_channels * (k - 1) + c + 1]]

InitBake ==
    /\ \E shape \in BakeShapes :
       \E d \in SeqsOf(ValidDims(shape[2], shape[3]), 0, MaxDims),
          masks \in {None, Some(GradedMasks(shape[1], shape[2]))},
          samples \in {None, Some([k \in 1..shape[1] |-> k - 1]), Some(Zeros(shape[1]))} :
           \E s \in {set_data(NewCanvas, Some(shape), Some(d), masks, samples, None)} :
               /\ s.ok
               /\ visual = s.visual
               /\ background = s.background
               /\ grid = s.grid
               /\ pz = s.pz
    /\ program = NewProgram
    /\ call = [op |-> "set_data", n |-> 1, square |-> TRUE, out_of_range |-> FALSE]
    /\ result = [status |-> "ok", clean |-> TRUE]
    /\ pc = "call"
    /\ arg = None
    /\ ret = None

BakeSpikes ==
    /\ pc = "call"
    /\ \E baked \in {_bake_spikes(visual)} :
           /\ program' = IF IsNone(baked) THEN program
                         ELSE [program EXCEPT !.a_position = Some(Val(baked).a_position),
                                              !.a_mask = Some(Val(baked).a_mask),
                                              !.a_box = Some(Val(baked).a_box),
                                              !.n_rows = Some(Val(baked).n_rows)]
           /\ result' = [status |-> IF IsNone(baked) THEN "error" ELSE "ok",
                         clean |-> ~IsNone(baked)]
    /\ call' = [call EXCEPT !.op = "_bake_spikes"]
    /\ pc' = "done"
    /\ UNCHANGED <<visual, background, grid, pz, arg, ret>>

NextBake == BakeSpikes

SpecBake == InitBake /\ [][NextBake]_vars

(* C7: for n_rows >= 1 and any n_spikes >= 0, _bake_spikes produces a      *)
(* position buffer of n_rows^2 * n_spikes rows and a box-index buffer of   *)
(* the same length whose entry k (0-based) is k div n_spikes.              *)
BakedBuffersRowMajor ==
    (pc = "done" /\ Val(visual.n_rows) >= 1) =>
        LET n_points == Val(visual.n_rows) * Val(visual.n_rows) * Val(visual.n_spikes)
        IN  /\ result.status = "ok"
            /\ ~IsNone(program.a_position) /\ ~IsNone(program.a_box)
            /\ Len(Val(program.a_position)) = n_points
            /\ Len(Val(program.a_box)) = n_points
            /\ \A k \in 1..n_points :
                   Val(program.a_box)[k] = (k - 1) \div Val(visual.n_spikes)

(* C8: in the mask buffer, the n_spikes entries of cell (i, j) are         *)
(* masks[:, c] in spike order when dim_y of the cell is (c, _), and all    *)
(* ones when it is Time, whatever dim_x is.                                *)
MaskFollowsYDimension ==
    (pc = "done" /\ result.status = "ok") =>
        LET n_rows == Val(visual.n_rows)
            n_spikes == Val(visual.n_spikes)
            a_mask == Val(program.a_mask)
        IN  /\ Len(a_mask) = n_rows * n_rows * n_spikes
            /\ \A i \in 0..(n_rows - 1) : \A j \in 0..(n_rows - 1) : \A k \in 1..n_spikes :
                   LET dim_y == visual.dimensions_matrix[i + 1][j + 1][2]
                   IN  a_mask[(n_rows * i + j) * n_spikes + k] =
                           (IF dim_y = Time THEN 1
                            ELSE Val(visual.masks)[k][dim_y[1] + 1])

(* C8 witness: several spikes with graded masks were baked for a grid      *)
(* that has a cell with channel 0 on x and channel 1 on y, and a cell with *)
(* time on y.                                                              *)
GradedMasksBaked ==
    /\ pc = "done" /\ result.status = "ok"
    /\ Val(visual.n_spikes) >= 2
    /\ Val(visual.masks) = GradedMasks(Val(visual.n_spikes), Val(visual.n_channels))
    /\ Val(visual.n_rows) = 2
    /\ visual.dimensions_matrix[1][2] = <<ChannelFeature(0, 0), ChannelFeature(1, 0)>>
    /\ Val(program.a_mask)[Val(visual.n_spikes) + 2] = Val(visual.masks)[2][2]

(***************************************************************************)
(* Marker size (FeatureVisual.marker_size, FeatureView.marker_size,        *)
(* FeatureView.on_key_press), in twentieths of a pixel                     *)
(***************************************************************************)
MinMarkerSize == 2
MaxMarkerSize == 2000
Coeff == 5

ClipLowerOnly(value) ==
    IF value = NaN THEN NaN
    ELSE Num(IF Val(value) < MinMarkerSize THEN MinMarkerSize ELSE Val(value))

(* np.clip(value, .1, 100): NaN passes through.                            *)
Clip(value) ==
    IF value = NaN THEN NaN
    ELSE Num(IF Val(value) < MinMarkerSize THEN MinMarkerSize
             ELSE IF Val(value) > MaxMarkerSize THEN MaxMarkerSize
             ELSE Val(value))

(* value + delta in floating point: NaN + delta is NaN.                    *)
Plus(value, delta) == IF value = NaN THEN NaN ELSE Num(Val(value) + delta)

(* The program after view.marker_size = value.                             *)
SetMarker(prog, value) == [prog EXCEPT !.u_size = Clip(value)]

(* The program after a key press.                                          *)
on_key_press(prog, modifiers, key) ==
    IF "Alt" \in modifiers
    THEN LET p1 == IF key = "+" THEN SetMarker(prog, Plus(prog.u_size, Coeff)) ELSE prog
         IN  IF key = "-" THEN SetMarker(p1, Plus(p1.u_size, -Coeff)) ELSE p1
    ELSE prog

MarkerInputs ==
    {NaN} \cup {Num(x) : x \in {-20, 0, 1, 2, 3, 60, 1999, 2000, 2001, 4000}}

SetMarkerSize ==
    \E value \in MarkerInputs :
        /\ program' = SetMarker(program, value)
        /\ call' = [call EXCEPT !.op = "marker_size"]
        /\ arg' = Some(value)
        /\ UNCHANGED <<visual, background, grid, pz, result, pc, ret>>

KeyPress ==
    \E modifiers \in SUBSET {"Alt", "Shift"}, key \in {"+", "-", "a"} :
        /\ program' = on_key_press(program, modifiers, key)
        /\ call' = [call EXCEPT !.op = "on_key_press"]
        /\ arg' = None
        /\ UNCHANGED <<visual, background, grid, pz, result, pc, ret>>

NextMarker == SetMarkerSize \/ KeyPress

SpecMarker == Init /\ [][NextMarker]_vars

InMarkerRange(value) ==
    value # NaN /\ MinMarkerSize <= Val(value) /\ Val(value) <= MaxMarkerSize

(* C9: after any marker_size assignments and Alt+'+' / Alt+'-' presses the *)
(* marker size lies in [0.1, 100].                                         *)
MarkerSizeAlwaysInRange == InMarkerRange(program.u_size)

(* C9, amended: an assignment of a number stores it clamped to [0.1, 100]  *)
(* (0.1 for a smaller value, 100 for a larger one), and a key press keeps  *)
(* a size that lies in [0.1, 100] inside [0.1, 100]; so the size leaves    *)
(* the range only when NaN is assigned.                                    *)
MarkerSizeClampedUnlessNaN ==
    [][/\ (call'.op = "marker_size" /\ arg' # None /\ Val(arg') # NaN) =>
              LET x == Val(Val(arg'))
              IN  /\ InMarkerRange(program'.u_size)
                  /\ x < MinMarkerSize => program'.u_size = Num(MinMarkerSize)
                  /\ x > MaxMarkerSize => program'.u_size = Num(MaxMarkerSize)
                  /\ (MinMarkerSize <= x /\ x <= MaxMarkerSize) => program'.u_size = Num(x)
       /\ (call'.op = "on_key_press" /\ InMarkerRange(program.u_size)) =>
              InMarkerRange(program'.u_size)]_vars

(* C9 witness: a value above 100 was assigned and 100 is stored.           *)
LargeMarkerSizeClamped ==
    /\ call.op = "marker_size"
    /\ arg = Some(Num(2 * MaxMarkerSize))
    /\ program.u_size = Num(MaxMarkerSize)

====
